---- MODULE Spec2Model ----
(***************************************************************************)
(* Model of clean.py (georgepwhuang/Kattis-Plagiarism-Report): the         *)
(* __main__ pipeline that parses a contest standings table, scans the      *)
(* paginated submissions feed, reconciles ./submissions against the        *)
(* accepted-id mapping and writes the analysis report.                     *)
(*                                                                         *)
(* Usernames (1, 2) and submission ids (11, 12, 13) are small integers.    *)
(* A timestamp is date * TicksPerDay + time-of-day.  The pages that the    *)
(* script downloads are inputs: each loop iteration draws the row it reads *)
(* from a set.                                                             *)
(***************************************************************************)
EXTENDS Integers, Sequences, FiniteSets, TLC

VARIABLES
    pc,                 \* position of the script
    today,              \* date.today()                              (l.102)
    dir,                \* the filesystem: ./submissions
    start_time, end_time,
    accepted, attempted, no_submission,
    student_list,       \* accepted | attempted | no_submission      (l.206)
    page, loop,
    remaining,          \* rows of `submissions` not yet iterated    (l.230-231)
    submit_time, author, red_flag, yellow_flag,   \* loop locals, they persist
    submission_dict, red_plagiarism, yellow_plagiarism, late_submission,
    missing_submission,
    console,            \* warnings printed by the reconciliation
    report_console, report_file,
    \* history variables (not program state)
    nstudents,          \* student rows iterated
    table_users,        \* usernames of the student rows iterated
    last_row,           \* per author: id and time of the last row processed
    min_time,           \* per author: smallest timestamp of a processed row
    late_authors,       \* authors of processed rows stamped after end_time
    dir0                \* ./submissions as it was when the script started

vars == <<pc, today, dir, start_time, end_time, accepted, attempted,
          no_submission, student_list, page, loop, remaining, submit_time,
          author, red_flag, yellow_flag, submission_dict, red_plagiarism,
          yellow_plagiarism, late_submission, missing_submission, console,
          report_console, report_file, nstudents, table_users, last_row,
          min_time, late_authors, dir0>>

-----------------------------------------------------------------------------
(* Bounds *)

MaxStudents == 2
MaxPage == 2
MaxPageLen == 2

-----------------------------------------------------------------------------
(* Input alphabets *)

Usernames == {1, 2}
SubmissionIds == {11, 12}
DirNames == {11, 12, 13}
Dates == {0, 1}
Tods == {0, 1}
TicksPerDay == Cardinality(Tods)

None == 0        \* no author link / unbound local
Unset == -1      \* a local that has not been assigned yet
NoDate == -1

\* Text of a timestamp cell: "YYYY-MM-DD HH:MM[:SS]", bare "HH:MM[:SS]", or junk.
FullText(d, t) == [fmt |-> "full", date |-> d, tod |-> t]
ShortText(t) == [fmt |-> "short", date |-> NoDate, tod |-> t]
BadText == [fmt |-> "bad", date |-> NoDate, tod |-> 0]
TimeTexts == {FullText(d, t) : d \in Dates, t \in Tods}
               \cup {ShortText(t) : t \in Tods} \cup {BadText}

\* solve.get("class"): None, or the list of the cell's class tokens.
NoClass == [has |-> FALSE, tokens |-> {}]
Class(ts) == [has |-> TRUE, tokens |-> ts]
CellClasses == {NoClass, Class({"attempted"}), Class({"solved"}), Class({"first"}),
                Class({"attempted", "solved"}), Class({"pending"}), Class({})}
StudentRows == [username : Usernames, cell : CellClasses]

\* data-submission-id attribute: absent, or digits with optional whitespace.
NoId == [present |-> FALSE, padded |-> FALSE, digits |-> 0]
IdText(p, n) == [present |-> TRUE, padded |-> p, digits |-> n]
IdTexts == {IdText(FALSE, 11), IdText(TRUE, 12)}

TestcasesRow == [cls |-> "testcases-row", time |-> BadText, author |-> None,
                 id |-> NoId, high |-> FALSE, warn |-> FALSE]
SubmissionRow(t, a, i, h, w) ==
    [cls |-> "submission", time |-> t, author |-> a, id |-> i, high |-> h, warn |-> w]

\* ./submissions: absent, or a listing name -> kind of entry.
NotFound == [exists |-> FALSE, entries |-> [n \in DirNames |-> "absent"]]
Listing(f) == [exists |-> TRUE, entries |-> f]
Dirs == {NotFound} \cup {Listing(f) : f \in [DirNames -> {"absent", "dir", "file"}]}

-----------------------------------------------------------------------------
(* Pure helpers *)

ParseError == -2

\* datetime.strptime with the full format, falling back to the bare format
\* combined with today's date; ParseError when both raise ValueError.
ParseTime(text) ==
    IF text.fmt = "full" THEN text.date * TicksPerDay + text.tod
    ELSE IF text.fmt = "short" THEN today * TicksPerDay + text.tod
    ELSE ParseError

\* The if/elif chain on the standings cell's class.
Classify(cell) ==
    IF ~cell.has THEN "no_submission"
    ELSE IF "attempted" \in cell.tokens THEN "attempted"
    ELSE IF "solved" \in cell.tokens THEN "accepted"
    ELSE IF "first" \in cell.tokens THEN "accepted"
    ELSE "RuntimeError"

\* id_.strip()
Strip(idtext) == idtext.digits

RECURSIVE Sorted(_)
\* sorted(set): the ascending list of a set of usernames.
Sorted(S) ==
    IF S = {} THEN <<>>
    ELSE LET m == CHOOSE x \in S : \A y \in S : x <= y
         IN <<m>> \o Sorted(S \ {m})

Values(d) == {d[k] : k \in DOMAIN d}
EmptyDict == [k \in {} |-> 0]
Put(d, k, v) == [x \in DOMAIN d \cup {k} |-> IF x = k THEN v ELSE d[x]]

-----------------------------------------------------------------------------
(* Initial state *)

InitWith(Todays, DirSet) ==
    /\ pc = "times"
    /\ today \in Todays
    /\ dir \in DirSet
    /\ dir0 = dir
    /\ start_time = Unset /\ end_time = Unset
    /\ accepted = {} /\ attempted = {} /\ no_submission = {}
    /\ student_list = {}
    /\ page = 0 /\ loop = TRUE /\ remaining = 0
    /\ submit_time = Unset /\ author = None
    /\ red_flag = FALSE /\ yellow_flag = FALSE
    /\ submission_dict = EmptyDict
    /\ red_plagiarism = {} /\ yellow_plagiarism = {} /\ late_submission = {}
    /\ missing_submission = <<>>
    /\ console = <<>>
    /\ report_console = <<>> /\ report_file = <<>>
    /\ nstudents = 0 /\ table_users = {}
    /\ last_row = EmptyDict /\ min_time = EmptyDict
    /\ late_authors = {}

-----------------------------------------------------------------------------
(* Standings parser, l.160-206 *)

scanVars == <<page, loop, remaining, submit_time, author, red_flag, yellow_flag,
              submission_dict, red_plagiarism, yellow_plagiarism, late_submission,
              last_row, min_time, late_authors>>
standingsVars == <<accepted, attempted, no_submission, student_list, nstudents,
                   table_users>>
outVars == <<dir, dir0, missing_submission, console, report_console, report_file>>

\* The standings page of a contest: it does not end before it starts.
ContestWindow(s, e) ==
    \/ ParseTime(s) = ParseError
    \/ ParseTime(e) = ParseError
    \/ ParseTime(s) <= ParseTime(e)

\* l.164-181: contest start and end, each with the two-format fallback.
ParseTimes(StartTexts, EndTexts) ==
    /\ pc = "times"
    /\ \E s \in StartTexts, e \in EndTexts :
         /\ ContestWindow(s, e)
         /\ IF ParseTime(s) = ParseError
            THEN /\ pc' = "aborted"
                 /\ UNCHANGED <<start_time, end_time>>
            ELSE IF ParseTime(e) = ParseError
            THEN /\ pc' = "aborted"
                 /\ start_time' = ParseTime(s)
                 /\ UNCHANGED end_time
            ELSE /\ pc' = "standings"
                 /\ start_time' = ParseTime(s)
                 /\ end_time' = ParseTime(e)
    /\ UNCHANGED <<today, standingsVars, scanVars, outVars>>

\* l.191-203: one iteration of `for student in student_list`.
ParseStudent(Rows) ==
    /\ pc = "standings"
    /\ nstudents < MaxStudents
    /\ \E row \in Rows :
         LET k == Classify(row.cell) IN
         /\ nstudents' = nstudents + 1
         /\ table_users' = table_users \cup {row.username}
         /\ no_submission' = IF k = "no_submission"
                             THEN no_submission \cup {row.username} ELSE no_submission
         /\ attempted' = IF k = "attempted"
                         THEN attempted \cup {row.username} ELSE attempted
         /\ accepted' = IF k = "accepted"
                        THEN accepted \cup {row.username} ELSE accepted
         /\ pc' = IF k = "RuntimeError" THEN "aborted" ELSE "standings"
    /\ UNCHANGED <<today, start_time, end_time, student_list, scanVars, outVars>>

\* l.204-215: the table is exhausted; the roster is the union of the three sets.
FinishStandings ==
    /\ pc = "standings"
    /\ student_list' = (accepted \cup attempted) \cup no_submission
    /\ pc' = "fetch"
    /\ UNCHANGED <<today, start_time, end_time, accepted, attempted, no_submission,
                   nstudents, table_users, scanVars, outVars>>

-----------------------------------------------------------------------------
(* Submission scanner, l.208-264 *)

IsBeforeStartInclusive(t) == t <= start_time

\* l.241: the row is older than the contest start.
IsBeforeStart(t) == t < start_time

IsLateNoRosterCheck(t, a) == t > end_time

\* l.250: a late row by a student without a counted solution.
IsLate(t, a) == t > end_time /\ a \in no_submission

RecordFirstWins(d, a, idtext) == IF a \in DOMAIN d THEN d ELSE Put(d, a, Strip(idtext))

\* l.254: submission_dict[author] = id_.strip()
RecordAccepted(d, a, idtext) == Put(d, a, Strip(idtext))

\* l.260: bool(submission.find(attrs={"class": "plagiarism-warning"}))
YellowFlag(row) == row.warn

\* l.256: bool(submission.find(attrs={"class": "plagiarism-warning-high"}))
RedFlag(row) == row.high

UnparseableTimeSwallowed == "reconcile"

\* l.239: the second strptime raises ValueError, which nothing catches.
UnparseableTime == "aborted"

\* l.218-229: one iteration of `while loop`: request the next page.
FetchPage ==
    /\ pc = "fetch"
    /\ loop
    /\ page < MaxPage
    /\ \E n \in 0..MaxPageLen :
         /\ remaining' = n
         /\ pc' = IF n = 0 THEN "fetch" ELSE "rows"
    /\ page' = page + 1
    /\ UNCHANGED <<today, start_time, end_time, standingsVars, loop, submit_time,
                   author, red_flag, yellow_flag, submission_dict, red_plagiarism,
                   yellow_plagiarism, late_submission, last_row, min_time,
                   late_authors, outVars>>

\* The feed lists submissions newest first: a row's timestamp is not later
\* than that of the row before it.
NewestFirst(r) ==
    \/ r.cls = "testcases-row"
    \/ ParseTime(r.time) = ParseError
    \/ submit_time = Unset
    \/ ParseTime(r.time) <= submit_time

\* History: the row by author a stamped t was processed.
Note(r, t) ==
    /\ last_row' = Put(last_row, r.author, [id |-> r.id, time |-> t])
    /\ min_time' = Put(min_time, r.author,
                       IF r.author \in DOMAIN min_time /\ min_time[r.author] < t
                       THEN min_time[r.author] ELSE t)
    /\ late_authors' = IF t > end_time THEN late_authors \cup {r.author}
                       ELSE late_authors

\* l.231-262: one iteration of `for submission in submissions`.
ScanRow(Rows) ==
    /\ pc = "rows"
    /\ remaining > 0
    /\ remaining' = remaining - 1
    /\ \E r \in Rows :
         /\ NewestFirst(r)
         /\ LET t == ParseTime(r.time)
                next == IF remaining = 1 THEN "fetch" ELSE "rows"
            IN
            IF r.cls = "testcases-row"
            THEN /\ pc' = next
                 /\ UNCHANGED <<loop, submit_time, author, red_flag, yellow_flag,
                                submission_dict, red_plagiarism, yellow_plagiarism,
                                late_submission, last_row, min_time, late_authors>>
            ELSE IF t = ParseError
            THEN /\ pc' = UnparseableTime
                 /\ UNCHANGED <<loop, submit_time, author, red_flag, yellow_flag,
                                submission_dict, red_plagiarism, yellow_plagiarism,
                                late_submission, last_row, min_time, late_authors>>
            ELSE IF IsBeforeStart(t)
            THEN /\ loop' = FALSE
                 /\ pc' = "reconcile"
                 /\ submit_time' = t
                 /\ UNCHANGED <<author, red_flag, yellow_flag,
                                submission_dict, red_plagiarism, yellow_plagiarism,
                                late_submission, last_row, min_time, late_authors>>
            ELSE IF r.author = None
            THEN /\ pc' = next
                 /\ submit_time' = t
                 /\ UNCHANGED <<loop, author, red_flag, yellow_flag,
                                submission_dict, red_plagiarism, yellow_plagiarism,
                                late_submission, last_row, min_time, late_authors>>
            ELSE /\ submit_time' = t
                 /\ author' = r.author
                 /\ Note(r, t)
                 /\ UNCHANGED loop
                 /\ IF r.author \notin student_list
                    THEN /\ pc' = next
                         /\ UNCHANGED <<red_flag, yellow_flag, submission_dict,
                                        red_plagiarism, yellow_plagiarism,
                                        late_submission>>
                    ELSE /\ late_submission' = IF IsLate(t, r.author)
                                               THEN late_submission \cup {r.author}
                                               ELSE late_submission
                         /\ IF r.author \in accepted /\ ~r.id.present
                            THEN \* None.strip(): AttributeError
                                 /\ pc' = "aborted"
                                 /\ UNCHANGED <<red_flag, yellow_flag, submission_dict,
                                                red_plagiarism, yellow_plagiarism>>
                            ELSE /\ pc' = next
                                 /\ submission_dict' =
                                       IF r.author \in accepted
                                       THEN RecordAccepted(submission_dict, r.author, r.id)
                                       ELSE submission_dict
                                 /\ red_flag' = RedFlag(r)
                                 /\ yellow_flag' = YellowFlag(r)
                                 /\ red_plagiarism' = IF RedFlag(r)
                                                      THEN red_plagiarism \cup {r.author}
                                                      ELSE red_plagiarism
                                 /\ yellow_plagiarism' = IF YellowFlag(r)
                                                         THEN yellow_plagiarism \cup {r.author}
                                                         ELSE yellow_plagiarism
    /\ UNCHANGED <<today, start_time, end_time, standingsVars, page, outVars>>

-----------------------------------------------------------------------------
(* Reconciler and reporter, l.266-298 *)

IsRedundantAnyKind(name, kind) == name \notin Values(submission_dict) /\ kind # "absent"

\* l.274: the entry is not an accepted id and is a directory.
IsRedundant(name, kind) == name \notin Values(submission_dict) /\ kind = "dir"

\* l.273-275: the listing after the removal loop.
Pruned(entries) ==
    [n \in DOMAIN entries |-> IF IsRedundant(n, entries[n]) THEN "absent" ELSE entries[n]]

\* l.276-278: one append of `author` per accepted id absent from the listing.
MissingList(entries) ==
    LET n == Cardinality({k \in DOMAIN submission_dict :
                            \/ submission_dict[k] \notin DOMAIN entries
                            \/ entries[submission_dict[k]] = "absent"})
    IN [i \in 1..n |-> author]

FolderNotFoundFatal == "aborted"

\* l.281-282: FileNotFoundError is caught; the script goes on to the report.
FolderNotFound == "report"

\* l.266-282
Reconcile ==
    /\ pc = "reconcile"
    /\ IF ~dir.exists
       THEN /\ pc' = FolderNotFound
            /\ console' = Append(console, "Warning: Submission Folder Not Found")
            /\ UNCHANGED <<dir, missing_submission>>
       ELSE IF \A n \in DOMAIN dir.entries : dir.entries[n] = "absent"
       THEN /\ pc' = "report"
            /\ console' = Append(console, "Warning: Submission Folder is Empty")
            /\ UNCHANGED <<dir, missing_submission>>
       ELSE /\ pc' = "report"
            /\ dir' = [dir EXCEPT !.entries = Pruned(dir.entries)]
            /\ missing_submission' = MissingList(Pruned(dir.entries))
            /\ console' = IF Len(MissingList(Pruned(dir.entries))) > 0
                          THEN Append(console, "Submissions Missing")
                          ELSE console
    /\ UNCHANGED <<today, start_time, end_time, standingsVars, scanVars, dir0,
                   report_console, report_file>>

YellowLineUnfiltered == Sorted(yellow_plagiarism)

\* l.286, l.294: sorted(yellow_plagiarism.difference(red_plagiarism))
YellowLine == Sorted(yellow_plagiarism \ red_plagiarism)

\* l.285-290 and l.293-298: the six labelled lists.
ReportLines ==
    << <<"Red Plagiarism Notices", Sorted(red_plagiarism)>>,
       <<"Yellow Plagiarism Notices", YellowLine>>,
       <<"Early Submission ", Sorted(accepted \ DOMAIN submission_dict)>>,
       <<"Late Submission", Sorted(late_submission)>>,
       <<"Attempted Only", Sorted(attempted \ late_submission)>>,
       <<"No Submission", Sorted(no_submission \ late_submission)>> >>

\* l.284-298
Report ==
    /\ pc = "report"
    /\ report_console' = ReportLines
    /\ report_file' = ReportLines
    /\ pc' = "done"
    /\ UNCHANGED <<today, start_time, end_time, standingsVars, scanVars, dir, dir0,
                   missing_submission, console>>

-----------------------------------------------------------------------------
(* Specifications.  All run the whole script; they differ in the sets the  *)
(* inputs are drawn from.                                                  *)

\* Rows of the submissions feed with every timestamp text, author and id.
TimedRows ==
    {TestcasesRow}
      \cup {SubmissionRow(t, a, i, FALSE, FALSE) :
              t \in TimeTexts, a \in Usernames \cup {None}, i \in IdTexts \cup {NoId}}

\* Rows with every combination of plagiarism markers.
FlaggedRows ==
    {TestcasesRow}
      \cup {SubmissionRow(t, a, IdText(FALSE, 11), h, w) :
              t \in {FullText(0, 0), FullText(0, 1), BadText},
              a \in Usernames \cup {None}, h \in BOOLEAN, w \in BOOLEAN}
      \cup {SubmissionRow(FullText(0, 1), 1, NoId, FALSE, FALSE)}

\* A few rows: old, at start, late, junk.
FewRows ==
    {TestcasesRow,
     SubmissionRow(FullText(0, 0), 1, IdText(FALSE, 11), FALSE, FALSE),
     SubmissionRow(FullText(0, 1), 1, IdText(FALSE, 11), FALSE, FALSE),
     SubmissionRow(FullText(1, 0), 1, IdText(TRUE, 12), FALSE, FALSE),
     SubmissionRow(FullText(1, 0), 2, IdText(FALSE, 12), FALSE, FALSE),
     SubmissionRow(ShortText(1), 2, IdText(FALSE, 11), TRUE, TRUE),
     SubmissionRow(FullText(1, 1), None, IdText(FALSE, 11), FALSE, FALSE),
     SubmissionRow(FullText(1, 1), 1, NoId, FALSE, FALSE),
     SubmissionRow(BadText, 1, IdText(FALSE, 11), FALSE, FALSE)}

FewStudentRows ==
    {[username |-> 1, cell |-> Class({"solved"})],
     [username |-> 2, cell |-> NoClass],
     [username |-> 2, cell |-> Class({"pending"})]}

\* A roster with both students, for the plagiarism lists.
RosterRows ==
    {[username |-> 1, cell |-> Class({"first"})],
     [username |-> 2, cell |-> Class({"attempted"})],
     [username |-> 2, cell |-> Class({})]}

FewStartTexts == {FullText(0, 1), BadText}
FewEndTexts == {FullText(1, 0), ShortText(0)}

FewDirs ==
    {NotFound,
     Listing([n \in DirNames |-> "absent"]),
     Listing([n \in DirNames |-> IF n = 11 THEN "absent" ELSE "dir"])}

Init == InitWith(Dates, FewDirs)

Next ==
    \/ ParseTimes(FewStartTexts, FewEndTexts)
    \/ ParseStudent(FewStudentRows)
    \/ FinishStandings
    \/ FetchPage
    \/ ScanRow(TimedRows)
    \/ Reconcile
    \/ Report

\* The submission scan over feeds with every timestamp, author and id.
Spec == Init /\ [][Next]_vars

InitStandings == InitWith(Dates, FewDirs)

NextStandings ==
    \/ ParseTimes(TimeTexts, TimeTexts)
    \/ ParseStudent(StudentRows)
    \/ FinishStandings
    \/ FetchPage
    \/ ScanRow(FewRows)
    \/ Reconcile
    \/ Report

\* The standings parser over every table and every contest window.
SpecStandings == InitStandings /\ [][NextStandings]_vars

InitPlagiarism == InitWith({1}, FewDirs)

NextPlagiarism ==
    \/ ParseTimes(FewStartTexts, FewEndTexts)
    \/ ParseStudent(RosterRows)
    \/ FinishStandings
    \/ FetchPage
    \/ ScanRow(FlaggedRows)
    \/ Reconcile
    \/ Report

\* The scan over rows with every combination of plagiarism markers.
SpecPlagiarism == InitPlagiarism /\ [][NextPlagiarism]_vars

InitReconcile == InitWith({1}, Dirs)

NextReconcile ==
    \/ ParseTimes(FewStartTexts, FewEndTexts)
    \/ ParseStudent(FewStudentRows)
    \/ FinishStandings
    \/ FetchPage
    \/ ScanRow(FewRows)
    \/ Reconcile
    \/ Report

\* The reconciliation over every content of ./submissions.
SpecReconcile == InitReconcile /\ [][NextReconcile]_vars

-----------------------------------------------------------------------------
(* Claims *)

Range(seq) == {seq[i] : i \in 1..Len(seq)}
StandingsParsed == pc \in {"fetch", "rows", "reconcile", "report", "done"}
ScanEnded == pc \in {"reconcile", "report", "done"}
Reconciled == pc \in {"report", "done"}
NonEmptyFolder(d) == d.exists /\ \E n \in DOMAIN d.entries : d.entries[n] # "absent"

\* C1: once every student row has been processed, accepted, attempted and
\* no_submission are pairwise disjoint and their union is the set of usernames
\* of the table's rows.
C1_StandingsPartition ==
    StandingsParsed =>
        /\ accepted \cap attempted = {}
        /\ accepted \cap no_submission = {}
        /\ attempted \cap no_submission = {}
        /\ (accepted \cup attempted) \cup no_submission = table_users

\* C2: the scan has stopped exactly when the last row it examined is stamped
\* below start_time; the step that stops it, and every step after it, changes
\* none of accepted_map, late_submission, red_plagiarism, yellow_plagiarism,
\* and fetches no further page.
C2_ScanStopsAtFirstOldRow ==
    [][ /\ (~loop') <=> (submit_time' # Unset /\ submit_time' < start_time')
        /\ (~loop') => UNCHANGED <<submission_dict, late_submission,
                                   red_plagiarism, yellow_plagiarism, page>>
      ]_vars

\* C2 witness: the scan stopped on its second page with a row of that page
\* unread, after it had recorded an accepted id.
C2_Witness ==
    /\ pc = "done" /\ ~loop
    /\ page = 2 /\ remaining = 1
    /\ DOMAIN submission_dict # {}

\* C3: late_submission is always a subset of no_submission, and it is exactly
\* the no_submission students who authored a processed row stamped strictly
\* after end_time.
C3_LateSubmission ==
    /\ late_submission \subseteq no_submission
    /\ late_submission = late_authors \cap no_submission

\* C3 witness: the scan ended with one no_submission student late and an
\* accepted student who also submitted after end_time left out.
C3_Witness ==
    /\ pc = "done"
    /\ late_submission # {}
    /\ (late_authors \cap accepted) \ late_submission # {}

\* C4: while the locals hold a processed row by a roster student that carries
\* both markers, its author is in red_plagiarism and in yellow_plagiarism; and
\* the yellow line of the report, on the console and in the file, names nobody
\* who is on the red line.
C4_PlagiarismLists ==
    /\ (pc # "aborted" /\ author \in student_list /\ red_flag /\ yellow_flag)
          => (author \in red_plagiarism /\ author \in yellow_plagiarism)
    /\ pc = "done" =>
          /\ Range(report_console[2][2]) \cap Range(report_console[1][2]) = {}
          /\ Range(report_file[2][2]) \cap Range(report_file[1][2]) = {}
          /\ Range(report_console[1][2]) = red_plagiarism
          /\ Range(report_file[1][2]) = red_plagiarism

\* C4 witness: the report was written with a student in both raw sets and
\* another one flagged yellow only.
C4_Witness ==
    /\ pc = "done"
    /\ red_plagiarism \cap yellow_plagiarism # {}
    /\ yellow_plagiarism \ red_plagiarism # {}

\* C5: after the reconciliation of an existing, non-empty folder, an entry is
\* gone exactly if it was a directory whose name is no value of accepted_map;
\* every other entry is as it was.
C5_RemovesOnlyStaleDirectories ==
    (Reconciled /\ NonEmptyFolder(dir0)) =>
        /\ dir.exists
        /\ \A n \in DOMAIN dir0.entries :
              dir.entries[n] =
                 IF dir0.entries[n] = "dir" /\ n \notin Values(submission_dict)
                 THEN "absent" ELSE dir0.entries[n]

\* C5 witness: a stale directory was removed, an accepted one and a stale
\* plain file were kept.
C5_Witness ==
    /\ pc = "done" /\ dir0.exists
    /\ \E n \in DirNames : dir0.entries[n] = "dir" /\ dir.entries[n] = "absent"
    /\ \E n \in DirNames : dir0.entries[n] = "dir" /\ dir.entries[n] = "dir"
    /\ \E n \in DirNames : dir0.entries[n] = "file" /\ n \notin Values(submission_dict)

\* C6: after the reconciliation of an existing, non-empty folder, the
\* 'Submissions Missing' list has exactly one entry for each accepted_map value
\* without a local entry, and that entry identifies the submission: it is the
\* submission id or the student the id is mapped from.
C6_MissingIdentifiesSubmissions ==
    (Reconciled /\ NonEmptyFolder(dir0)) =>
        LET M == {k \in DOMAIN submission_dict :
                     dir.entries[submission_dict[k]] = "absent"}
            Count(x) == Cardinality({i \in 1..Len(missing_submission) :
                                        missing_submission[i] = x})
        IN /\ Len(missing_submission) = Cardinality(M)
           /\ \/ \A k \in M : Count(k) = 1
              \/ \A k \in M : Count(submission_dict[k]) = 1

\* C7 as claimed: at the end of the scan every key of accepted_map is in
\* accepted and its value is the id of the last row by that author processed,
\* which is the author's oldest row inside [start_time, end_time].
C7_OldestAcceptedInWindow ==
    ScanEnded =>
        \A a \in DOMAIN submission_dict :
            /\ a \in accepted
            /\ a \in DOMAIN last_row
            /\ submission_dict[a] = Strip(last_row[a].id)
            /\ last_row[a].time = min_time[a]
            /\ start_time <= last_row[a].time /\ last_row[a].time <= end_time

\* C7 amended: at the end of the scan the keys of accepted_map are the accepted
\* students with a processed row, and each value is the stripped id of the last
\* row by that author processed, which is the author's oldest processed row and
\* is stamped at or after start_time (not necessarily at or before end_time).
C7_LastWriteWins ==
    ScanEnded =>
        /\ DOMAIN submission_dict \subseteq accepted
        /\ DOMAIN submission_dict = accepted \cap DOMAIN last_row
        /\ \A a \in DOMAIN submission_dict :
              /\ submission_dict[a] = Strip(last_row[a].id)
              /\ last_row[a].time = min_time[a]
              /\ start_time <= last_row[a].time

\* C7 witness: an accepted student submitted after end_time and, older, inside
\* the window under another id; the older id is the one mapped.
C7_Witness ==
    /\ ScanEnded
    /\ \E a \in DOMAIN submission_dict :
          /\ a \in late_authors
          /\ last_row[a].time <= end_time
          /\ submission_dict[a] = 12

\* C8: when ./submissions does not exist the script does not stop after the
\* scan: it prints the warning, removes nothing, lists no missing submission,
\* and writes the six-line report to the console and to the file.
C8_MissingFolderRecovered ==
    (~dir0.exists) =>
        /\ ~loop => ScanEnded
        /\ Reconciled =>
              /\ console = <<"Warning: Submission Folder Not Found">>
              /\ dir = dir0
              /\ missing_submission = <<>>
        /\ pc = "done" =>
              /\ Len(report_console) = 6
              /\ report_console = ReportLines
              /\ report_file = report_console

\* C8 witness: the report was written although the folder is missing and
\* accepted ids were recorded.
C8_Witness ==
    /\ pc = "done" /\ ~dir0.exists
    /\ DOMAIN submission_dict # {}

\* C9: the scan stops fetching when a fetched page holds no row: the step that
\* fetches an empty page ends the loop.
C9_EmptyPageEndsScan ==
    [][(pc = "fetch" /\ page' = page + 1 /\ remaining' = 0) => ~loop']_vars

\* C10: as long as the scan has not finished, and in a run that aborted, the
\* folder is as it was at the start, nothing has been listed as missing and no
\* report has been written to the console or to the file.
C10_NoWriteBeforeReconcile ==
    (loop \/ pc = "aborted") =>
        /\ dir = dir0
        /\ missing_submission = <<>>
        /\ console = <<>>
        /\ report_console = <<>>
        /\ report_file = <<>>

\* C10 witness: a run aborted in the middle of the scan, with an accepted id
\* recorded and a stale directory in the folder, which is still there.
C10_Witness ==
    /\ pc = "aborted"
    /\ DOMAIN submission_dict # {}
    /\ \E n \in DirNames : dir.entries[n] = "dir" /\ n \notin Values(submission_dict)

====
